---- MODULE Spec2Model ----
(***************************************************************************)
(* YouTube Suggestion & Google Trends Explorer (src/app.py).               *)
(*                                                                         *)
(* The model covers the suggestion crawl (get_youtube_suggestions,         *)
(* get_all_suggestions), the batched scoring (get_google_trends_data),     *)
(* the two button handlers that read and write st.session_state, and the   *)
(* "Top 10" sort of the results view.                                      *)
(*                                                                         *)
(* A phrase is a sequence of one-character strings, so that equality,      *)
(* lower-casing and prefix tests are computed character by character.      *)
(* A Google Trends Index is held in hundredths (round(avg_interest, 2)     *)
(* keeps two decimals): 350 stands for 3.5.                                *)
(***************************************************************************)
EXTENDS Integers, Sequences, FiniteSets

VARIABLES
    op,              \* which operation this behaviour runs: "crawl", "score", "rank", "app"
    pc,              \* position inside the operation
    keyword,         \* the seed typed in the sidebar (line 133)
    p,               \* crawl: number of prefixes already swept (loop index of line 57)
    all_suggestions, \* crawl: the accumulated list (line 41)
    lookups,         \* crawl: the autocomplete lookups issued so far, in order
    seen,            \* crawl: every phrase a successful lookup has returned so far
    keywords,        \* score: the input list (line 76)
    i,               \* score: offset of the next batch (line 84)
    trends_data,     \* score: the rows appended so far (line 79)
    requests,        \* score: the batches handed to build_payload so far, in order
    warnings,        \* score: batch numbers reported with st.warning (line 120)
    events,          \* outbound calls ("request") and time.sleep calls ("sleep"), in order
    has_df,          \* 'suggestions_df' in st.session_state
    suggestions_df,  \* st.session_state.suggestions_df (rows Keyword / Index)
    run,             \* what the last script run did (button pressed, inputs, outputs)
    top_df           \* the "Top 10 Keywords by Popularity" frame of the results view

vars == <<op, pc, keyword, p, all_suggestions, lookups, seen, keywords, i,
          trends_data, requests, warnings, events, has_df, suggestions_df, run, top_df>>

----------------------------------------------------------------------------
(* Bounds of the model *)

\* prefixes swept by a crawl (the code sweeps all 36 of string.ascii_lowercase + digits)
NumPrefixes == 2
\* longest suggestion list one autocomplete response carries
MaxSuggestions == 2
\* longest keyword list handed to a scoring run
MaxKeywords == 6
\* longest table the results view is asked to sort
MaxRankRows == 4
\* longest stored table the "Get Google Trends Index" button is pressed on
MaxSessionRows == 2

(* Program constants *)

\* range(0, total_keywords, 5) and keywords[i:i+5]
BatchSize == 5
\* .head(10)
TopK == 10
\* the None of 'Google Trends Index': [None] * len(suggestions)
None == -1

----------------------------------------------------------------------------
(* Sequences *)

Range(s) == {s[k] : k \in DOMAIN s}

Min(a, b) == IF a <= b THEN a ELSE b

Last(s) == s[Len(s)]

IsPrefixOf(s, t) == Len(s) <= Len(t) /\ SubSeq(t, 1, Len(s)) = s

\* all sequences over S of length at most n
SeqsUpTo(S, n) == UNION {[1..m -> S] : m \in 0..n}

----------------------------------------------------------------------------
(* Text: str.lower and str.startswith, character by character *)

LowerChar(c) ==
    CASE c = "M" -> "m"
      [] c = "A" -> "a"
      [] c = "B" -> "b"
      [] OTHER -> c

lower(s) == [k \in 1..Len(s) |-> LowerChar(s[k])]

startswith(s, prefix) == IsPrefixOf(prefix, s)

\* string.ascii_lowercase + string.digits
AsciiLowercaseDigits ==
    <<"a", "b", "c", "d", "e", "f", "g", "h", "i", "j", "k", "l", "m",
      "n", "o", "p", "q", "r", "s", "t", "u", "v", "w", "x", "y", "z",
      "0", "1", "2", "3", "4", "5", "6", "7", "8", "9">>

prefixes == SubSeq(AsciiLowercaseDigits, 1, NumPrefixes)

total_prefixes == Len(prefixes)

\* the seeds typed in the sidebar
Seeds == {<<"m">>, <<"M">>}

\* the phrases the autocomplete endpoint answers with: "ma", "Ma" (the same
\* phrase in another casing), "am" (does not start with the seed), "mb"
Phrases == {<<"m", "a">>, <<"M", "a">>, <<"a", "m">>, <<"m", "b">>}

----------------------------------------------------------------------------
(* The autocomplete endpoint and get_youtube_suggestions *)

\* query = f"{keyword} {prefix}" if prefix else keyword
Query(kw, prefix) == IF prefix = "" THEN kw ELSE kw \o <<" ">> \o <<prefix>>

\* What requests.get(url) / response.json() can do: raise in the request, raise
\* in the parse, or yield a JSON array data (data[1] is the suggestion list).
Responses ==
    {[kind |-> "request_error", data |-> <<>>], [kind |-> "parse_error", data |-> <<>>]}
    \cup {[kind |-> "json", data |-> <<>>]}
    \cup {[kind |-> "json", data |-> <<<<"q">>>>]}
    \cup {[kind |-> "json", data |-> <<<<"q">>, s>>] : s \in SeqsUpTo(Phrases, MaxSuggestions)}

Failed(response) == response.kind \in {"request_error", "parse_error"}

get_youtube_suggestions_uncaught(response) ==
    IF Failed(response)
    THEN [raised |-> TRUE, suggestions |-> <<>>]
    ELSE IF response.data # <<>> /\ Len(response.data) > 1
         THEN [raised |-> FALSE, suggestions |-> response.data[2]]
         ELSE [raised |-> FALSE, suggestions |-> <<>>]

\* try: ... except Exception: st.error(...); return suggestions
\* raised: whether an exception leaves the function (it never does).
get_youtube_suggestions(response) ==
    IF Failed(response)
    THEN [raised |-> FALSE, suggestions |-> <<>>]
    ELSE IF response.data # <<>> /\ Len(response.data) > 1
         THEN [raised |-> FALSE, suggestions |-> response.data[2]]
         ELSE [raised |-> FALSE, suggestions |-> <<>>]

RECURSIVE Collect_nocheck(_, _)
Collect_nocheck(all, suggestions) ==
    IF suggestions = <<>> THEN all
    ELSE Collect_nocheck(Append(all, Head(suggestions)), Tail(suggestions))

RECURSIVE Collect_seedonly(_, _)
Collect_seedonly(all, suggestions) ==
    IF suggestions = <<>> THEN all
    ELSE Collect_seedonly(
             IF Head(suggestions) \in Range(all) \/ LowerChar(Head(suggestions)[1]) # "m"
             THEN all ELSE Append(all, Head(suggestions)),
             Tail(suggestions))

\* for suggestion in suggestions:
\*     if suggestion not in all_suggestions: all_suggestions.append(suggestion)
RECURSIVE Collect(_, _)
Collect(all, suggestions) ==
    IF suggestions = <<>> THEN all
    ELSE Collect(
             IF Head(suggestions) \in Range(all) THEN all ELSE Append(all, Head(suggestions)),
             Tail(suggestions))

\* The lists get_all_suggestions can return: the accumulated lists after the
\* bare-seed lookup and the first k prefix lookups, over all responses.
RECURSIVE CrawlLists(_, _)
CrawlLists(S, k) ==
    IF k = 0 THEN S
    ELSE CrawlLists(
             {Collect(a, get_youtube_suggestions(r).suggestions) : a \in S, r \in Responses},
             k - 1)

get_all_suggestions == CrawlLists({<<>>}, 1 + total_prefixes)

----------------------------------------------------------------------------
(* The trends capability and get_google_trends_data *)

\* the k-th keyword of a scoring input: the seed, a space and the k-th prefix
KeywordAt(k) == <<"m", " ", AsciiLowercaseDigits[k]>>

\* the interest-over-time columns the trends capability answers with
SeriesPool == {<<3, 4>>, <<7, 7>>}

RECURSIVE Sum(_)
Sum(s) == IF s = <<>> THEN 0 ELSE Head(s) + Sum(Tail(s))

\* round(data[keyword].mean(), 2), in hundredths
RoundedMean(series) == (200 * Sum(series) + Len(series)) \div (2 * Len(series))

Batch_six(kws, k) == SubSeq(kws, k + 1, Min(k + BatchSize + 1, Len(kws)))

\* batch = keywords[i:i+5]
Batch(kws, k) == SubSeq(kws, k + 1, Min(k + BatchSize, Len(kws)))

\* What the try block of one batch can meet: build_payload / interest_over_time
\* raise (throttled: HTTP 429, or another error), or they return a frame that
\* is empty or holds a column for some of the batch's keywords; and, after a
\* frame came back, a later statement of the try block may still raise, when
\* `after` rows of the batch have been appended.
Outcomes(batch) ==
    {[kind |-> k, cols |-> <<>>, raises |-> FALSE, after |-> 0] : k \in {"throttled", "error"}}
    \cup {[kind |-> "empty", cols |-> <<>>, raises |-> FALSE, after |-> Len(batch)]}
    \cup {[kind |-> "empty", cols |-> <<>>, raises |-> TRUE, after |-> a] : a \in 0..Len(batch)}
    \cup UNION {{[kind |-> "data", cols |-> c, raises |-> FALSE, after |-> Len(batch)]}
                \cup {[kind |-> "data", cols |-> c, raises |-> TRUE, after |-> a] :
                         a \in 0..Len(batch)} :
                  c \in UNION {[C -> SeriesPool] : C \in SUBSET Range(batch)}}

RequestFailed(o) == o.kind \in {"throttled", "error"}

\* how the request of a batch ended, for the log
Status(o) == IF RequestFailed(o) THEN o.kind ELSE IF o.raises THEN "raised_late" ELSE o.kind

Zeros(batch) == [k \in 1..Len(batch) |-> [Keyword |-> batch[k], Index |-> 0]]

\* lines 91-111: one row per keyword of the batch
Rows(batch, o) ==
    IF o.kind = "empty" THEN Zeros(batch)
    ELSE [k \in 1..Len(batch) |->
            IF batch[k] \in DOMAIN o.cols
            THEN [Keyword |-> batch[k], Index |-> RoundedMean(o.cols[batch[k]])]
            ELSE [Keyword |-> batch[k], Index |-> 0]]

HandleBatchError_skip(td, batch) == td

\* except Exception: st.warning(...); a 0 row for every keyword of the batch
HandleBatchError(td, batch) == td \o Zeros(batch)

\* lines 86-126: the try block and its handler for one batch
ProcessBatch(td, batch, o) ==
    IF RequestFailed(o)
    THEN [trends_data |-> HandleBatchError(td, batch), warned |-> TRUE, slept |-> FALSE]
    ELSE IF o.raises
         THEN [trends_data |-> HandleBatchError(td \o SubSeq(Rows(batch, o), 1, o.after), batch),
               warned |-> TRUE, slept |-> FALSE]
         ELSE [trends_data |-> td \o Rows(batch, o), warned |-> FALSE, slept |-> TRUE]

NextOffset_retry(k, o) == IF o.kind = "throttled" THEN k ELSE k + BatchSize

\* for i in range(0, total_keywords, 5): the next batch, whatever the outcome o
NextOffset(k, o) == k + BatchSize

\* The frames get_google_trends_data(kws) can return, over all batch outcomes.
RECURSIVE ScoreTables(_, _, _)
ScoreTables(S, kws, k) ==
    IF k >= Len(kws) THEN S
    ELSE ScoreTables(
             {ProcessBatch(td, Batch(kws, k), o).trends_data :
                 td \in S, o \in Outcomes(Batch(kws, k))},
             kws, k + BatchSize)

get_google_trends_data(kws) == ScoreTables({<<>>}, kws, 0)

----------------------------------------------------------------------------
(* The results view *)

Keywords(df) == [k \in 1..Len(df) |-> df[k].Keyword]

\* df['Google Trends Index'].notna().any()
AnyNotNa(df) == \E k \in 1..Len(df) : df[k].Index # None

\* the rows of df with their index labels
Labelled(df) == [k \in 1..Len(df) |-> [label |-> k, Keyword |-> df[k].Keyword, Index |-> df[k].Index]]

\* sort_values(by='Google Trends Index', ascending=False): the default
\* kind='quicksort' is not a stable sort, so rows with equal values come out in
\* any order. The orders of the labels in S, highest value first:
RECURSIVE Descending(_, _)
Descending(df, S) ==
    IF S = {} THEN {<<>>}
    ELSE UNION {{<<Labelled(df)[k]>> \o t : t \in Descending(df, S \ {k})} :
                  k \in {a \in S : \A b \in S : df[a].Index >= df[b].Index}}

sort_values(df) == Descending(df, DOMAIN df)

head(df, n) == SubSeq(df, 1, Min(n, Len(df)))

\* pd.DataFrame({'Keyword': suggestions, 'Google Trends Index': [None] * len(suggestions)})
Unscored(suggestions) ==
    [k \in 1..Len(suggestions) |-> [Keyword |-> suggestions[k], Index |-> None]]

Truthy_always(suggestions) == TRUE

\* if suggestions:
Truthy(suggestions) == suggestions # <<>>

NoRun == [button |-> "none", had_df |-> FALSE, input |-> <<>>]

----------------------------------------------------------------------------
(* Initial states: the start of one operation *)

Idle ==
    /\ keyword = <<"m">> /\ p = 0 /\ all_suggestions = <<>> /\ lookups = <<>> /\ seen = {}
    /\ keywords = <<>> /\ i = 0 /\ trends_data = <<>> /\ requests = <<>> /\ warnings = <<>>
    /\ events = <<>> /\ has_df = FALSE /\ suggestions_df = <<>> /\ run = NoRun
    /\ top_df = <<>>

\* get_all_suggestions(keyword) is entered
InitCrawl ==
    /\ op = "crawl" /\ pc = "base"
    /\ keyword \in Seeds
    /\ p = 0 /\ all_suggestions = <<>> /\ lookups = <<>> /\ seen = {}
    /\ keywords = <<>> /\ i = 0 /\ trends_data = <<>> /\ requests = <<>> /\ warnings = <<>>
    /\ events = <<>> /\ has_df = FALSE /\ suggestions_df = <<>> /\ run = NoRun
    /\ top_df = <<>>

\* the keyword lists a scoring run is entered with: pairwise distinct
ScoreInputs == {[k \in 1..n |-> KeywordAt(k)] : n \in 0..MaxKeywords}

\* get_google_trends_data(keywords) is entered
InitScore ==
    /\ op = "score" /\ pc = "loop"
    /\ keywords \in ScoreInputs
    /\ keyword = <<"m">> /\ p = 0 /\ all_suggestions = <<>> /\ lookups = <<>> /\ seen = {}
    /\ i = 0 /\ trends_data = <<>> /\ requests = <<>> /\ warnings = <<>>
    /\ events = <<>> /\ has_df = FALSE /\ suggestions_df = <<>> /\ run = NoRun
    /\ top_df = <<>>

\* the values a stored table holds: 0, round(3.5, 2), round(7.0, 2)
RankScores == {0} \cup {RoundedMean(s) : s \in SeriesPool}

\* the tables the results view is rendered on: unscored, or scored
RankTables ==
    UNION {{[k \in 1..n |-> [Keyword |-> KeywordAt(k), Index |-> None]]}
           \cup {[k \in 1..n |-> [Keyword |-> KeywordAt(k), Index |-> f[k]]] :
                    f \in [1..n -> RankScores]} :
             n \in 1..MaxRankRows}

\* the script reaches "Display results" with a stored table
InitRank ==
    /\ op = "rank" /\ pc = "render"
    /\ has_df = TRUE /\ suggestions_df \in RankTables
    /\ keyword = <<"m">> /\ p = 0 /\ all_suggestions = <<>> /\ lookups = <<>> /\ seen = {}
    /\ keywords = <<>> /\ i = 0 /\ trends_data = <<>> /\ requests = <<>> /\ warnings = <<>>
    /\ events = <<>> /\ run = NoRun /\ top_df = <<>>

\* a fresh session: nothing stored
InitApp == op = "app" /\ pc = "idle" /\ Idle

Init == InitCrawl \/ InitScore \/ InitRank \/ InitApp

----------------------------------------------------------------------------
(* The crawl, one lookup at a time (get_all_suggestions, lines 40-73) *)

ReturnedPhrases(r) ==
    IF r.kind = "json" /\ Len(r.data) > 1 THEN Range(r.data[2]) ELSE {}

crawl_vars == <<keywords, i, trends_data, requests, warnings, has_df, suggestions_df, run, top_df>>

\* lines 51-54: the bare seed
CrawlBase ==
    /\ op = "crawl" /\ pc = "base"
    /\ \E r \in Responses :
         LET got == get_youtube_suggestions(r) IN
         /\ lookups' = Append(lookups, [query |-> Query(keyword, ""), ok |-> ~Failed(r)])
         /\ seen' = seen \cup ReturnedPhrases(r)
         /\ events' = Append(events, "request")
         /\ IF got.raised
            THEN pc' = "aborted" /\ UNCHANGED all_suggestions
            ELSE /\ pc' = "loop"
                 /\ all_suggestions' = Collect(all_suggestions, got.suggestions)
    /\ UNCHANGED <<op, keyword, p>>
    /\ UNCHANGED crawl_vars

\* lines 57-70: one prefix
CrawlPrefix ==
    /\ op = "crawl" /\ pc = "loop" /\ p < total_prefixes
    /\ \E r \in Responses :
         LET got == get_youtube_suggestions(r) IN
         /\ lookups' = Append(lookups, [query |-> Query(keyword, prefixes[p + 1]), ok |-> ~Failed(r)])
         /\ seen' = seen \cup ReturnedPhrases(r)
         /\ IF got.raised
            THEN /\ pc' = "aborted"
                 /\ events' = Append(events, "request")
                 /\ UNCHANGED <<all_suggestions, p>>
            ELSE /\ pc' = "loop"
                 /\ all_suggestions' = Collect(all_suggestions, got.suggestions)
                 /\ events' = events \o <<"request", "sleep">>
                 /\ p' = p + 1
    /\ UNCHANGED <<op, keyword>>
    /\ UNCHANGED crawl_vars

\* line 73: return all_suggestions
CrawlReturn ==
    /\ op = "crawl" /\ pc = "loop" /\ p = total_prefixes
    /\ pc' = "done"
    /\ UNCHANGED <<op, keyword, p, all_suggestions, lookups, seen, events>>
    /\ UNCHANGED crawl_vars

----------------------------------------------------------------------------
(* The scoring run, one batch at a time (get_google_trends_data, lines 76-129) *)

score_vars == <<keyword, p, all_suggestions, lookups, seen, has_df, suggestions_df, run, top_df>>

\* lines 84-126: one batch
ScoreBatch ==
    /\ op = "score" /\ pc = "loop" /\ i < Len(keywords)
    /\ LET batch == Batch(keywords, i) IN
       \E o \in Outcomes(batch) :
         LET done == ProcessBatch(trends_data, batch, o) IN
         /\ requests' = Append(requests,
                [offset |-> i, batch |-> batch, status |-> Status(o), before |-> trends_data])
         /\ trends_data' = done.trends_data
         /\ warnings' = IF done.warned THEN Append(warnings, (i \div BatchSize) + 1) ELSE warnings
         /\ events' = events \o (IF done.slept THEN <<"request", "sleep">> ELSE <<"request">>)
         /\ i' = NextOffset(i, o)
    /\ UNCHANGED <<op, pc, keywords>>
    /\ UNCHANGED score_vars

\* line 129: return pd.DataFrame(trends_data)
ScoreReturn ==
    /\ op = "score" /\ pc = "loop" /\ i >= Len(keywords)
    /\ pc' = "done"
    /\ UNCHANGED <<op, keywords, i, trends_data, requests, warnings, events>>
    /\ UNCHANGED score_vars

----------------------------------------------------------------------------
(* The results view (lines 199-219) *)

\* if notna().any(): top_df = sort_values(...).head(10)
Display ==
    /\ op = "rank" /\ pc = "render"
    /\ IF AnyNotNa(suggestions_df)
       THEN \E sorted \in sort_values(suggestions_df) : top_df' = head(sorted, TopK)
       ELSE top_df' = <<>>
    /\ pc' = "shown"
    /\ UNCHANGED <<op, keyword, p, all_suggestions, lookups, seen, keywords, i, trends_data,
                   requests, warnings, events, has_df, suggestions_df, run>>

----------------------------------------------------------------------------
(* The button handlers on the session (lines 172-197) *)

app_vars == <<op, pc, keyword, p, all_suggestions, lookups, seen, keywords, i, trends_data,
              requests, warnings, events, top_df>>

\* "Get YouTube Suggestions" (lines 172-187)
PressSuggestions ==
    /\ op = "app"
    /\ \E suggestions \in get_all_suggestions :
         /\ run' = [button |-> "suggestions", had_df |-> has_df, input |-> suggestions]
         /\ IF Truthy(suggestions)
            THEN /\ has_df' = TRUE
                 /\ suggestions_df' = Unscored(suggestions)
            ELSE UNCHANGED <<has_df, suggestions_df>>
    /\ UNCHANGED app_vars

\* "Get Google Trends Index" (lines 190-197)
PressTrends ==
    /\ op = "app"
    /\ has_df
    /\ Len(suggestions_df) <= MaxSessionRows
    /\ \E trends_df \in get_google_trends_data(Keywords(suggestions_df)) :
         /\ suggestions_df' = trends_df
         /\ run' = [button |-> "trends", had_df |-> has_df, input |-> Keywords(suggestions_df)]
    /\ UNCHANGED has_df
    /\ UNCHANGED app_vars

----------------------------------------------------------------------------

Next ==
    \/ CrawlBase
    \/ CrawlPrefix
    \/ CrawlReturn
    \/ ScoreBatch
    \/ ScoreReturn
    \/ Display
    \/ PressSuggestions
    \/ PressTrends

Spec == Init /\ [][Next]_vars

----------------------------------------------------------------------------
(* Properties *)

\* the number of batches of n keywords: ceil(n / 5)
NumBatches(n) == (n + BatchSize - 1) \div BatchSize

RECURSIVE ConcatBatches(_)
ConcatBatches(reqs) ==
    IF reqs = <<>> THEN <<>> ELSE ConcatBatches(SubSeq(reqs, 1, Len(reqs) - 1)) \o Last(reqs).batch

\* the rows the step of request j appended
RowsOf(j) ==
    SubSeq(trends_data, Len(requests[j].before) + 1,
           IF j < Len(requests) THEN Len(requests[j + 1].before) ELSE Len(trends_data))

\* C1: get_google_trends_data returns exactly one row per input keyword, whatever
\* the outcome of each batch: no keyword is missing and none appears twice.
C1_OneRowPerKeyword ==
    (op = "score" /\ pc = "done") =>
        /\ Len(trends_data) = Len(keywords)
        /\ \A kw \in Range(keywords) :
             Cardinality({k \in DOMAIN trends_data : trends_data[k].Keyword = kw}) = 1

\* C2: every batch handed to build_payload holds between 1 and 5 keywords, the
\* batches are consecutive disjoint slices of the input, concatenated in request
\* order they equal the input processed so far, and a finished run has requested
\* ceil(n/5) batches that together equal the input.
C2_BatchesPartitionInput ==
    op = "score" =>
        /\ \A j \in DOMAIN requests :
             /\ Len(requests[j].batch) \in 1..BatchSize
             /\ requests[j].offset = Len(ConcatBatches(SubSeq(requests, 1, j - 1)))
             /\ requests[j].batch =
                    SubSeq(keywords, requests[j].offset + 1,
                           requests[j].offset + Len(requests[j].batch))
        /\ IsPrefixOf(ConcatBatches(requests), keywords)
        /\ pc = "done" =>
             /\ ConcatBatches(requests) = keywords
             /\ Len(requests) = NumBatches(Len(keywords))

C2_Witness ==
    /\ op = "score" /\ pc = "done"
    /\ Len(keywords) = BatchSize + 1
    /\ Len(requests) = 2
    /\ Len(requests[1].batch) = BatchSize /\ Len(requests[2].batch) = 1

\* C3: a failed lookup (request or parse error), for the bare seed or for any
\* prefix, never aborts the sweep: the lookups issued are the bare seed and then
\* every prefix in order, all of them by the time the crawl returns, and the
\* accumulated list holds exactly the phrases the successful lookups returned
\* (a failed lookup adds nothing, a successful one loses nothing).
C3_FailedLookupContained ==
    op = "crawl" =>
        /\ pc # "aborted"
        /\ Len(lookups) = (IF pc = "base" THEN 0 ELSE 1 + p)
        /\ \A j \in DOMAIN lookups :
             lookups[j].query = (IF j = 1 THEN keyword ELSE Query(keyword, prefixes[j - 1]))
        /\ pc = "done" => Len(lookups) = 1 + total_prefixes
        /\ Range(all_suggestions) = seen

C3_Witness ==
    /\ op = "crawl" /\ pc = "done"
    /\ ~lookups[1].ok /\ ~lookups[2].ok /\ lookups[Len(lookups)].ok
    /\ all_suggestions # <<>>

\* C4: when the trends request of batch k fails with a non-throttling error, a
\* warning is emitted for batch k, the rows recorded for it are one 0 row per
\* keyword of the batch, the rows recorded before it stay as they were, and the
\* run goes on: the next batch requested is the one after k, and a finished run
\* has requested every batch.
C4_BatchErrorContained ==
    op = "score" =>
        /\ \A j \in DOMAIN requests :
             requests[j].status = "error" =>
                 /\ (requests[j].offset \div BatchSize) + 1 \in Range(warnings)
                 /\ RowsOf(j) = Zeros(requests[j].batch)
                 /\ IsPrefixOf(requests[j].before, trends_data)
                 /\ j < Len(requests) => requests[j + 1].offset = requests[j].offset + BatchSize
        /\ pc = "done" => Len(requests) = NumBatches(Len(keywords))

C4_Witness ==
    /\ op = "score" /\ pc = "done"
    /\ Len(requests) = 2
    /\ requests[1].status = "error"
    /\ requests[2].status = "data"
    /\ \E k \in DOMAIN trends_data : trends_data[k].Index > 0

C6_DelayBetweenCalls ==
    \A k \in 1..(Len(events) - 1) : ~(events[k] = "request" /\ events[k + 1] = "request")

C9_StableDescending ==
    (op = "rank" /\ pc = "shown" /\ AnyNotNa(suggestions_df)) =>
        /\ Len(top_df) = Min(TopK, Len(suggestions_df))
        /\ \A a, b \in DOMAIN top_df :
             a < b =>
                 /\ top_df[a].Index >= top_df[b].Index
                 /\ top_df[a].Index = top_df[b].Index => top_df[a].label < top_df[b].label

\* C10: the scoring handler runs only while a table is stored, and never on an
\* empty keyword list; a table comes to be stored only by a crawl that returned
\* at least one suggestion, with every score unset; a crawl that returns no
\* suggestion leaves the stored table, if any, as it was.
C10_ScoringNeedsStoredTable ==
    /\ [](op = "app" =>
            /\ has_df => Len(suggestions_df) >= 1
            /\ run.button = "trends" => (run.had_df /\ run.input # <<>>)
            /\ (run.button = "suggestions" /\ run.input # <<>>) =>
                   (has_df /\ suggestions_df = Unscored(run.input)))
    /\ [][op = "app" =>
            /\ (~has_df /\ has_df') =>
                   /\ run'.button = "suggestions"
                   /\ run'.input # <<>>
                   /\ suggestions_df' = Unscored(run'.input)
            /\ (run'.button = "suggestions" /\ run'.input = <<>>) =>
                   UNCHANGED <<has_df, suggestions_df>>]_vars

C10_Witness ==
    /\ op = "app"
    /\ run.button = "suggestions" /\ run.input = <<>>
    /\ run.had_df /\ has_df
    /\ \E k \in DOMAIN suggestions_df : suggestions_df[k].Index > 0

====
